---- MODULE Spec2Model ----
(***************************************************************************)
(* Model of clients_db.py: the functions create_db, add_client, add_phone,  *)
(* change_client, delete_phone, delete_client and find_client over the      *)
(* PostgreSQL tables client and phone, called one after another on one      *)
(* psycopg2 connection (autocommit off, the psycopg2 default).              *)
(*                                                                         *)
(* The state is the committed store, the status of the connection's         *)
(* transaction between two calls and the two SERIAL sequences.  Each        *)
(* function is an operator from the session it is called in to the session  *)
(* it leaves, the exception it raises and the value it returns; each action *)
(* is one call.  A claim about what a call does is an invariant that holds  *)
(* of the call made in every reachable state with every argument, or a      *)
(* property of every step.                                                  *)
(*                                                                         *)
(* A text value is a sequence of one-character strings.  An optional        *)
(* Python argument is a set: {} is None, {v} is the value v.                *)
(***************************************************************************)
EXTENDS Integers, Sequences, FiniteSets, TLC

\* ---------------------------------------------------------------- bounds
\* ids the SERIAL sequences may hand out before the model stops inserting
MaxClientId == 2
MaxPhoneId == 2

\* ------------------------------------------------------ schema constants
FirstNameLen == 100
LastNameLen == 100
EmailLen == 150
NumberLen == 20

\* ------------------------------------------------------------ input data
None == {}
Some(v) == {v}
Val(o) == CHOOSE v \in o : TRUE

Ivan == <<"I", "v">>
Petr == <<"P", "e">>
Ivanov == <<"I", "v", "o">>
Petrov == <<"P", "o">>
MailA == <<"a", "@", "b">>
MailB == <<"c", "@", "b">>
Num1 == <<"+", "1">>
Num2 == <<"+", "2">>
\* a number one character longer than the column number VARCHAR(20) holds
LongNum == [i \in 1..(NumberLen + 1) |-> "9"]

\* add_client stores a client under one name; change_client gives another
FirstNames == {Ivan}
LastNames == {Ivanov}
NewFirstNames == {Petr}
NewLastNames == {Petrov}
Emails == {MailA, MailB}
Numbers == {Num1, LongNum}
ClientIds == 1..(MaxClientId + 1)

\* the phones lists passed to add_client and change_client: the empty list
\* and the lists of one and of two numbers
PhoneLists ==
    {<<>>} \cup {<<a>> : a \in Numbers} \cup {<<a, b>> : a, b \in Numbers}

Opt(S) == {None} \cup {Some(v) : v \in S}

\* search criteria of find_client: absent, exact in another case, wildcard
CritFirstNames == {None, Some(<<"i", "V">>), Some(<<"%">>)}
CritLastNames == {None, Some(Petrov)}
CritEmails == {None, Some(<<"_", "@", "b">>)}
CritPhones == {None, Some(Num1), Some(Num2)}

\* ------------------------------------------------------------------ state
VARIABLES
    db,        \* the committed store: [hasClient, hasPhone, client, phone]
    tx,        \* the connection's transaction status between calls
    cseq,      \* next value of client_id_seq
    pseq       \* next value of phone_id_seq

vars == <<db, tx, cseq, pseq>>

EmptyDb == [hasClient |-> FALSE, hasPhone |-> FALSE, client |-> {}, phone |-> {}]

\* ------------------------------------------------- connection and session
\* A session is the connection while a function runs: work is what the open
\* transaction sees, comm what is committed.  Sequence values are handed out
\* outside any transaction.
Session == [work |-> db, comm |-> db, tx |-> tx, cseq |-> cseq, pseq |-> pseq]

Ok(s) == [s |-> s, err |-> "none"]

\* a statement failed: the transaction is aborted and its work is lost
Fail(s, e) == [s |-> [s EXCEPT !.tx = "aborted", !.work = s.comm], err |-> e]

\* cur.execute on a connection whose transaction already failed
Refused(s) == [s |-> s, err |-> "InFailedSqlTransaction"]

\* cur.execute opens a transaction when none is open
Begin(s) == IF s.tx = "idle" THEN [s EXCEPT !.tx = "intrans"] ELSE s

\* an exception leaves the function at once: the rest runs only without one
Then(r, F(_)) == IF r.err # "none" THEN r ELSE F(r.s)

\* conn.commit(): publishes the work; on a failed transaction it ends it
\* without publishing anything and without raising
Commit(s) ==
    IF s.tx = "intrans" THEN [s EXCEPT !.comm = s.work, !.tx = "idle"]
    ELSE [s EXCEPT !.work = s.comm, !.tx = "idle"]

ClientIdsOf(d) == {c.id : c \in d.client}


\* --------------------------------------------------------------- ILIKE
\* case folding of the letters the data uses
Fold(ch) ==
    CASE ch = "A" -> "a"
      [] ch = "B" -> "b"
      [] ch = "C" -> "c"
      [] ch = "E" -> "e"
      [] ch = "I" -> "i"
      [] ch = "O" -> "o"
      [] ch = "P" -> "p"
      [] ch = "V" -> "v"
      [] OTHER -> ch

\* text ILIKE pattern: the whole text must match; % stands for any run of
\* characters, _ for any one character, every other character for itself
\* whatever its case
RECURSIVE MatchFrom(_, _, _, _)
MatchFrom(text, i, pat, j) ==
    IF j > Len(pat) THEN i > Len(text)
    ELSE IF pat[j] = "%"
         THEN \E k \in i..(Len(text) + 1) : MatchFrom(text, k, pat, j + 1)
         ELSE /\ i <= Len(text)
              /\ (pat[j] = "_" \/ Fold(pat[j]) = Fold(text[i]))
              /\ MatchFrom(text, i + 1, pat, j + 1)

ILike(text, pat) == MatchFrom(text, 1, pat, 1)

\* ------------------------------------------------------- SQL statements
\* DROP TABLE IF EXISTS phone; DROP TABLE IF EXISTS client;
DropTables(s) ==
    IF s.tx = "aborted" THEN Refused(s)
    ELSE Ok([Begin(s) EXCEPT !.work = EmptyDb])

\* CREATE TABLE IF NOT EXISTS client (id SERIAL PRIMARY KEY, ...): a new
\* table comes with a new sequence
CreateClientTable(s) ==
    IF s.tx = "aborted" THEN Refused(s)
    ELSE LET b == Begin(s)
         IN  IF b.work.hasClient THEN Ok(b)
             ELSE Ok([b EXCEPT !.work.hasClient = TRUE, !.work.client = {},
                               !.cseq = 1])

\* CREATE TABLE IF NOT EXISTS phone (... REFERENCES client(id) ...)
CreatePhoneTable(s) ==
    IF s.tx = "aborted" THEN Refused(s)
    ELSE LET b == Begin(s)
         IN  IF b.work.hasPhone THEN Ok(b)
             ELSE IF ~b.work.hasClient THEN Fail(b, "UndefinedTable")
             ELSE Ok([b EXCEPT !.work.hasPhone = TRUE, !.work.phone = {},
                               !.pseq = 1])

\* INSERT INTO client (first_name, last_name, email) VALUES ... RETURNING id
\* The length of a literal is checked when the statement is planned, the
\* UNIQUE constraint after the row has taken its id from the sequence.
InsertClient(s, first_name, last_name, email) ==
    IF s.tx = "aborted" THEN Refused(s)
    ELSE LET b == Begin(s)
             row == [id |-> b.cseq, first_name |-> first_name,
                     last_name |-> last_name, email |-> email]
             took == [b EXCEPT !.cseq = @ + 1]
         IN  IF ~b.work.hasClient THEN Fail(b, "UndefinedTable")
             ELSE IF \/ Len(first_name) > FirstNameLen
                     \/ Len(last_name) > LastNameLen
                     \/ Len(email) > EmailLen
                  THEN Fail(b, "StringDataRightTruncation")
             ELSE IF \E c \in b.work.client : c.email = email
                  THEN Fail(took, "UniqueViolation")
             ELSE [s |-> [took EXCEPT !.work.client = @ \cup {row}],
                   err |-> "none", id |-> row.id]

\* INSERT INTO phone (client_id, number) VALUES (%s, %s)
\* client_id REFERENCES client(id) is checked after the row took its id.
InsertPhone(s, client_id, number) ==
    IF s.tx = "aborted" THEN Refused(s)
    ELSE LET b == Begin(s)
             row == [id |-> b.pseq, client_id |-> client_id, number |-> number]
             took == [b EXCEPT !.pseq = @ + 1]
         IN  IF ~b.work.hasPhone THEN Fail(b, "UndefinedTable")
             ELSE IF Len(number) > NumberLen
                  THEN Fail(b, "StringDataRightTruncation")
             ELSE IF client_id \notin ClientIdsOf(b.work)
                  THEN Fail(took, "ForeignKeyViolation")
             ELSE Ok([took EXCEPT !.work.phone = @ \cup {row}])

\* UPDATE client SET first_name = %s WHERE id = %s
UpdateFirstName(s, first_name, client_id) ==
    IF s.tx = "aborted" THEN Refused(s)
    ELSE LET b == Begin(s)
         IN  IF ~b.work.hasClient THEN Fail(b, "UndefinedTable")
             ELSE IF Len(first_name) > FirstNameLen
                  THEN Fail(b, "StringDataRightTruncation")
             ELSE Ok([b EXCEPT !.work.client =
                        {IF c.id = client_id
                         THEN [c EXCEPT !.first_name = first_name] ELSE c
                         : c \in @}])

\* UPDATE client SET last_name = %s WHERE id = %s
UpdateLastName(s, last_name, client_id) ==
    IF s.tx = "aborted" THEN Refused(s)
    ELSE LET b == Begin(s)
         IN  IF ~b.work.hasClient THEN Fail(b, "UndefinedTable")
             ELSE IF Len(last_name) > LastNameLen
                  THEN Fail(b, "StringDataRightTruncation")
             ELSE Ok([b EXCEPT !.work.client =
                        {IF c.id = client_id
                         THEN [c EXCEPT !.last_name = last_name] ELSE c
                         : c \in @}])

\* UpdateEmail as it would be were the column email not UNIQUE
UpdateEmailNotUnique(s, email, client_id) ==
    IF s.tx = "aborted" THEN Refused(s)
    ELSE LET b == Begin(s)
         IN  IF ~b.work.hasClient THEN Fail(b, "UndefinedTable")
             ELSE Ok([b EXCEPT !.work.client =
                        {IF c.id = client_id
                         THEN [c EXCEPT !.email = email] ELSE c
                         : c \in @}])

\* UPDATE client SET email = %s WHERE id = %s, email being UNIQUE
UpdateEmail(s, email, client_id) ==
    IF s.tx = "aborted" THEN Refused(s)
    ELSE LET b == Begin(s)
         IN  IF ~b.work.hasClient THEN Fail(b, "UndefinedTable")
             ELSE IF Len(email) > EmailLen
                  THEN Fail(b, "StringDataRightTruncation")
             ELSE IF /\ client_id \in ClientIdsOf(b.work)
                     /\ \E c \in b.work.client :
                            c.id # client_id /\ c.email = email
                  THEN Fail(b, "UniqueViolation")
             ELSE Ok([b EXCEPT !.work.client =
                        {IF c.id = client_id
                         THEN [c EXCEPT !.email = email] ELSE c
                         : c \in @}])

\* DELETE FROM phone WHERE client_id = %s
DeletePhonesOf(s, client_id) ==
    IF s.tx = "aborted" THEN Refused(s)
    ELSE LET b == Begin(s)
         IN  IF ~b.work.hasPhone THEN Fail(b, "UndefinedTable")
             ELSE Ok([b EXCEPT !.work.phone =
                        {p \in @ : p.client_id # client_id}])

\* DELETE FROM phone WHERE client_id = %s AND number = %s
DeletePhoneRow(s, client_id, number) ==
    IF s.tx = "aborted" THEN Refused(s)
    ELSE LET b == Begin(s)
         IN  IF ~b.work.hasPhone THEN Fail(b, "UndefinedTable")
             ELSE Ok([b EXCEPT !.work.phone =
                        {p \in @ : ~(p.client_id = client_id
                                     /\ p.number = number)}])

\* DeleteClientRow as it would be were phone.client_id declared without
\* REFERENCES client(id) ON DELETE CASCADE
DeleteClientRowNoCascade(s, client_id) ==
    IF s.tx = "aborted" THEN Refused(s)
    ELSE LET b == Begin(s)
         IN  IF ~b.work.hasClient THEN Fail(b, "UndefinedTable")
             ELSE Ok([b EXCEPT !.work.client = {c \in @ : c.id # client_id}])

\* DELETE FROM client WHERE id = %s, with phone.client_id ON DELETE CASCADE
DeleteClientRow(s, client_id) ==
    IF s.tx = "aborted" THEN Refused(s)
    ELSE LET b == Begin(s)
         IN  IF ~b.work.hasClient THEN Fail(b, "UndefinedTable")
             ELSE Ok([b EXCEPT
                        !.work.client = {c \in @ : c.id # client_id},
                        !.work.phone = {p \in @ : p.client_id # client_id}])


\* ------------------------------------------------------ Python functions
\* create_db: drop both tables, create both, commit
create_db(s) ==
    LET r == Then(Then(DropTables(s), CreateClientTable), CreatePhoneTable)
    IN  IF r.err # "none" THEN [s |-> r.s, err |-> r.err, ret |-> <<>>]
        ELSE [s |-> Commit(r.s), err |-> "none", ret |-> <<>>]

\* add_phone: one INSERT, then conn.commit() on the caller's connection
add_phone(s, client_id, phone) ==
    LET r == InsertPhone(s, client_id, phone)
    IN  IF r.err # "none" THEN [s |-> r.s, err |-> r.err, ret |-> <<>>]
        ELSE [s |-> Commit(r.s), err |-> "none", ret |-> <<>>]

\* for phone in phones: add_phone(conn, client_id, phone)
RECURSIVE AddPhones(_, _, _)
AddPhones(s, client_id, phones) ==
    IF phones = <<>> THEN [s |-> s, err |-> "none", ret |-> <<>>]
    ELSE LET r == add_phone(s, client_id, Head(phones))
         IN  IF r.err # "none" THEN r
             ELSE AddPhones(r.s, client_id, Tail(phones))

\* add_client: INSERT the client, add_phone for each phone, commit
add_client(s, first_name, last_name, email, phones) ==
    LET ins == InsertClient(s, first_name, last_name, email)
        client_id == ins.id
        added == IF phones # None /\ Val(phones) # <<>>
                 THEN AddPhones(ins.s, client_id, Val(phones))
                 ELSE [s |-> ins.s, err |-> "none", ret |-> <<>>]
    IN  IF ins.err # "none" THEN [s |-> ins.s, err |-> ins.err, ret |-> <<>>]
        ELSE IF added.err # "none" THEN added
        ELSE [s |-> Commit(added.s), err |-> "none",
              ret |-> <<[id |-> client_id]>>]

\* ReplacePhones as it would be with "if phones:" for "if phones is not None:"
ReplacePhonesIfAny(s, client_id, phones) ==
    IF phones = None \/ Val(phones) = <<>>
    THEN [s |-> s, err |-> "none", ret |-> <<>>]
    ELSE LET del == DeletePhonesOf(s, client_id)
         IN  IF del.err # "none"
             THEN [s |-> del.s, err |-> del.err, ret |-> <<>>]
             ELSE AddPhones(del.s, client_id, Val(phones))

\* change_client, "if phones is not None": delete the client's phones and
\* add_phone each new one
ReplacePhones(s, client_id, phones) ==
    IF phones = None THEN [s |-> s, err |-> "none", ret |-> <<>>]
    ELSE LET del == DeletePhonesOf(s, client_id)
         IN  IF del.err # "none"
             THEN [s |-> del.s, err |-> del.err, ret |-> <<>>]
             ELSE AddPhones(del.s, client_id, Val(phones))

\* change_client: an UPDATE for each field given, the phones, commit
change_client(s, client_id, first_name, last_name, email, phones) ==
    LET r1 == IF first_name # None
              THEN UpdateFirstName(s, Val(first_name), client_id) ELSE Ok(s)
        r2 == IF r1.err # "none" THEN r1
              ELSE IF last_name # None
              THEN UpdateLastName(r1.s, Val(last_name), client_id) ELSE r1
        r3 == IF r2.err # "none" THEN r2
              ELSE IF email # None
              THEN UpdateEmail(r2.s, Val(email), client_id) ELSE r2
        r4 == IF r3.err # "none" THEN r3
              ELSE ReplacePhones(r3.s, client_id, phones)
    IN  IF r4.err # "none" THEN [s |-> r4.s, err |-> r4.err, ret |-> <<>>]
        ELSE [s |-> Commit(r4.s), err |-> "none", ret |-> <<>>]

\* delete_phone: one DELETE, commit
delete_phone(s, client_id, phone) ==
    LET r == DeletePhoneRow(s, client_id, phone)
    IN  IF r.err # "none" THEN [s |-> r.s, err |-> r.err, ret |-> <<>>]
        ELSE [s |-> Commit(r.s), err |-> "none", ret |-> <<>>]

\* delete_client as it would be without its conn.commit()
delete_client_uncommitted(s, client_id) ==
    LET r == DeleteClientRow(s, client_id)
    IN  [s |-> r.s, err |-> r.err, ret |-> <<>>]

\* delete_client: one DELETE, commit
delete_client(s, client_id) ==
    LET r == DeleteClientRow(s, client_id)
    IN  IF r.err # "none" THEN [s |-> r.s, err |-> r.err, ret |-> <<>>]
        ELSE [s |-> Commit(r.s), err |-> "none", ret |-> <<>>]

\* ------------------------------------------------------------ find_client
\* "if first_name:" and the like: None and the empty string give no condition
Given(o) == o # None /\ Val(o) # <<>>

\* the WHERE conditions on the columns of client
ClientMatches(c, first_name, last_name, email) ==
    /\ Given(first_name) => ILike(c.first_name, Val(first_name))
    /\ Given(last_name) => ILike(c.last_name, Val(last_name))
    /\ Given(email) => ILike(c.email, Val(email))

\* how many rows the query yields for client c: one, or with a phone
\* criterion one for each of its phone rows that the JOIN pairs with it
RowCount(d, c, phone) ==
    IF Given(phone)
    THEN Cardinality({p \in d.phone :
                        p.client_id = c.id /\ ILike(p.number, Val(phone))})
    ELSE 1

Repeat(x, n) == [i \in 1..n |-> x]

\* the rows of the query, ORDER BY c.id
RECURSIVE RowsInOrder(_, _, _)
RowsInOrder(d, clients, phone) ==
    IF clients = {} THEN <<>>
    ELSE LET c == CHOOSE x \in clients : \A y \in clients : x.id <= y.id
         IN  Repeat(c, RowCount(d, c, phone))
                 \o RowsInOrder(d, clients \ {c}, phone)

\* SELECT number FROM phone WHERE client_id = %s.  The query fixes no order,
\* so the list is kept as the numbers with how often each occurs.
PhonesOf(d, client_id) ==
    LET own == {p \in d.phone : p.client_id = client_id}
    IN  [n \in {p.number : p \in own} |->
            Cardinality({p \in own : p.number = n})]

\* find_client: the query on client, joined with phone under a phone
\* criterion, then for each of its rows a query for that client's phones;
\* no commit
find_client(s, first_name, last_name, email, phone) ==
    IF s.tx = "aborted"
    THEN [s |-> s, err |-> "InFailedSqlTransaction", ret |-> <<>>]
    ELSE LET b == Begin(s)
             d == b.work
             clients == RowsInOrder(d,
                          {c \in d.client :
                             ClientMatches(c, first_name, last_name, email)},
                          phone)
         IN  IF \/ ~d.hasClient
                \/ Given(phone) /\ ~d.hasPhone
                \/ clients # <<>> /\ ~d.hasPhone
             THEN [s |-> Fail(b, "UndefinedTable").s, err |-> "UndefinedTable",
                   ret |-> <<>>]
             ELSE [s |-> b, err |-> "none",
                   ret |-> [i \in 1..Len(clients) |->
                              [id |-> clients[i].id,
                               first_name |-> clients[i].first_name,
                               last_name |-> clients[i].last_name,
                               email |-> clients[i].email,
                               phones |-> PhonesOf(d, clients[i].id)]]]

\* ---------------------------------------------------------------- actions
Init ==
    /\ db = EmptyDb
    /\ tx = "idle"
    /\ cseq = 1
    /\ pseq = 1

\* Each action is one call, returned or raised: it leaves the store, the
\* connection and the sequences as the function left them.
CreateDb ==
    LET r == create_db(Session)
    IN  /\ db' = r.s.comm
        /\ tx' = r.s.tx
        /\ cseq' = r.s.cseq
        /\ pseq' = r.s.pseq

AddClient ==
    \E fn \in FirstNames, ln \in LastNames, em \in Emails,
       ph \in Opt(PhoneLists) :
        LET r == add_client(Session, fn, ln, em, ph)
        IN  /\ cseq <= MaxClientId
            /\ ph # None => pseq + Len(Val(ph)) <= MaxPhoneId + 1
            /\ db' = r.s.comm
            /\ tx' = r.s.tx
            /\ cseq' = r.s.cseq
            /\ pseq' = r.s.pseq

AddPhone ==
    \E id \in ClientIds, n \in Numbers :
        LET r == add_phone(Session, id, n)
        IN  /\ pseq <= MaxPhoneId
            /\ db' = r.s.comm
            /\ tx' = r.s.tx
            /\ cseq' = r.s.cseq
            /\ pseq' = r.s.pseq

ChangeClient ==
    \E id \in ClientIds, fn \in Opt(NewFirstNames), ln \in Opt(NewLastNames),
       em \in Opt(Emails), ph \in Opt(PhoneLists) :
        LET r == change_client(Session, id, fn, ln, em, ph)
        IN  /\ ph # None => pseq + Len(Val(ph)) <= MaxPhoneId + 1
            /\ db' = r.s.comm
            /\ tx' = r.s.tx
            /\ cseq' = r.s.cseq
            /\ pseq' = r.s.pseq

DeletePhone ==
    \E id \in ClientIds, n \in Numbers :
        LET r == delete_phone(Session, id, n)
        IN  /\ db' = r.s.comm
            /\ tx' = r.s.tx
            /\ cseq' = r.s.cseq
            /\ pseq' = r.s.pseq

DeleteClient ==
    \E id \in ClientIds :
        LET r == delete_client(Session, id)
        IN  /\ db' = r.s.comm
            /\ tx' = r.s.tx
            /\ cseq' = r.s.cseq
            /\ pseq' = r.s.pseq

FindClient ==
    \E fn \in CritFirstNames, ln \in CritLastNames, em \in CritEmails,
       ph \in CritPhones :
        LET r == find_client(Session, fn, ln, em, ph)
        IN  /\ db' = r.s.comm
            /\ tx' = r.s.tx
            /\ cseq' = r.s.cseq
            /\ pseq' = r.s.pseq

\* the caller ends a failed transaction: "with psycopg2.connect(...) as conn"
\* rolls back when an exception leaves the block
Rollback ==
    /\ tx = "aborted"
    /\ tx' = "idle"
    /\ UNCHANGED <<db, cseq, pseq>>

Next ==
    \/ CreateDb
    \/ AddClient
    \/ AddPhone
    \/ ChangeClient
    \/ DeletePhone
    \/ DeleteClient
    \/ FindClient
    \/ Rollback

Spec == Init /\ [][Next]_vars


\* ================================================================ claims
\* what the store holds for one client
RowOf(d, id) == CHOOSE c \in d.client : c.id = id
PhoneRowsOf(d, id) == {p \in d.phone : p.client_id = id}
OtherClients(d, id) == {c \in d.client : c.id # id}
OtherPhones(d, id) == {p \in d.phone : p.client_id # id}

\* C1: after any sequence of calls, returned or raised, with any client ids,
\* every row of phone references a row of client that exists.
C1_NoOrphanPhone ==
    \A p \in db.phone : p.client_id \in ClientIdsOf(db)

\* C1 is at work: phones are stored, adding a phone for an id no client has
\* is refused by the foreign key, and deleting a client that owns phones
\* takes its phones with it.
C1_Witness ==
    /\ db.phone # {}
    /\ \E id \in ClientIds :
          /\ id \notin ClientIdsOf(db)
          /\ add_phone(Session, id, Num1).err = "ForeignKeyViolation"
    /\ \E c \in db.client :
          /\ PhoneRowsOf(db, c.id) # {}
          /\ LET r == delete_client(Session, c.id)
             IN  r.err = "none" /\ PhoneRowsOf(r.s.comm, c.id) = {}

\* C2: after any sequence of add_client and change_client calls, no two
\* rows of client have the same email.
C2_UniqueEmail ==
    \A c1 \in db.client, c2 \in db.client : c1.email = c2.email => c1 = c2

\* C2 is at work: two clients are stored and change_client giving one the
\* email of the other is refused.
C2_Witness ==
    \E c1 \in db.client, c2 \in db.client :
        /\ c1.id # c2.id
        /\ change_client(Session, c1.id, None, None, Some(c2.email), None).err
              = "UniqueViolation"

\* C3, as claimed: a call that fails leaves the committed store as it was
\* before the call, none of its effects committed.  A call has raised exactly
\* when it leaves the connection's transaction failed.
C3_AllOrNothing == [][tx' = "aborted" => db' = db]_vars

\* C4, as claimed: add_client with an email a stored client has fails with
\* DuplicateEmailError, found by a check made before the INSERT (so that no
\* INSERT takes an id from client_id_seq), creates no row of client and none
\* of phone, and one row of client has that email afterwards.
C4_DuplicateEmailError ==
    \A fn \in FirstNames, ln \in LastNames, em \in Emails,
       ph \in Opt(PhoneLists) :
        (tx # "aborted" /\ \E c \in db.client : c.email = em) =>
            LET r == add_client(Session, fn, ln, em, ph)
            IN  /\ r.err = "DuplicateEmailError"
                /\ r.s.cseq = cseq
                /\ r.s.comm.client = db.client
                /\ r.s.comm.phone = db.phone
                /\ Cardinality({c \in r.s.comm.client : c.email = em}) = 1

\* C5, as claimed: add_phone with a client id no stored client has fails
\* with ClientNotFoundError and leaves the table phone as it was.
C5_ClientNotFoundOnAddPhone ==
    \A id \in ClientIds, n \in Numbers :
        (tx # "aborted" /\ db.hasPhone /\ id \notin ClientIdsOf(db)) =>
            LET r == add_phone(Session, id, n)
            IN  /\ r.err = "ClientNotFoundError"
                /\ r.s.comm.phone = db.phone

\* C6, as claimed: change_client with a client id no stored client has
\* fails with ClientNotFoundError and changes no row, whatever fields are
\* given.
C6_ClientNotFoundOnChange ==
    \A id \in ClientIds, fn \in Opt(NewFirstNames), ln \in Opt(NewLastNames),
       em \in Opt(Emails), ph \in Opt(PhoneLists) :
        (tx # "aborted" /\ db.hasClient /\ id \notin ClientIdsOf(db)) =>
            LET r == change_client(Session, id, fn, ln, em, ph)
            IN  /\ r.err = "ClientNotFoundError"
                /\ r.s.comm = db

\* C7: delete_client(id) for a stored client, on a connection whose
\* transaction has not failed, returns; afterwards the row of that client is
\* gone, no row of phone references the id, find_client returns no record
\* with the id whatever the criteria, and the rows of the other clients and
\* their phones are as before.
C7_DeleteClientCascades ==
    \A id \in ClientIdsOf(db) :
        tx # "aborted" =>
            LET r == delete_client(Session, id)
                post == r.s.comm
            IN  /\ r.err = "none"
                /\ id \notin ClientIdsOf(post)
                /\ PhoneRowsOf(post, id) = {}
                /\ post.client = OtherClients(db, id)
                /\ post.phone = OtherPhones(db, id)
                /\ \A fn \in CritFirstNames, ln \in CritLastNames,
                      em \in CritEmails, ph \in CritPhones :
                      LET found == find_client(r.s, fn, ln, em, ph)
                      IN  /\ found.err = "none"
                          /\ \A i \in 1..Len(found.ret) : found.ret[i].id # id

\* C7's case: a client that owns phones is deleted while another client
\* that owns phones is stored.
C7_Witness ==
    \E c1 \in db.client, c2 \in db.client :
        /\ c1.id # c2.id
        /\ PhoneRowsOf(db, c1.id) # {}
        /\ PhoneRowsOf(db, c2.id) # {}
        /\ delete_client(Session, c1.id).err = "none"
        /\ delete_client(Session, c1.id).s.comm.phone = PhoneRowsOf(db, c2.id)

\* C8: change_client for a stored client leaves alone what was not given:
\* the ids, the rows of the other clients and their phones, each of
\* first_name, last_name and email that was not passed, and the client's
\* phones when phones was not passed.  When it returns, each field passed has
\* the value passed, and a phones list passed has replaced the client's
\* phones: the empty list leaves the client without phones.
C8_ChangeOnlyWhatIsGiven ==
    \A id \in ClientIdsOf(db), fn \in Opt(NewFirstNames),
       ln \in Opt(NewLastNames),
       em \in Opt(Emails), ph \in Opt(PhoneLists) :
        LET r == change_client(Session, id, fn, ln, em, ph)
            post == r.s.comm
            old == RowOf(db, id)
            new == RowOf(post, id)
            own == PhoneRowsOf(post, id)
        IN  /\ ClientIdsOf(post) = ClientIdsOf(db)
            /\ OtherClients(post, id) = OtherClients(db, id)
            /\ OtherPhones(post, id) = OtherPhones(db, id)
            /\ fn = None => new.first_name = old.first_name
            /\ ln = None => new.last_name = old.last_name
            /\ em = None => new.email = old.email
            /\ ph = None => post.phone = db.phone
            /\ r.err = "none" =>
                  /\ fn # None => new.first_name = Val(fn)
                  /\ ln # None => new.last_name = Val(ln)
                  /\ em # None => new.email = Val(em)
                  /\ ph = Some(<<>>) => own = {}
                  /\ ph # None =>
                        /\ Cardinality(own) = Len(Val(ph))
                        /\ {p.number : p \in own}
                              = {Val(ph)[i] : i \in 1..Len(Val(ph))}

\* C8's case: a client that owns a phone, stored next to another client that
\* owns one, gets a new first name and the empty phones list, and the call
\* returns.
C8_Witness ==
    \E c1 \in db.client, c2 \in db.client :
        /\ c1.id # c2.id
        /\ c1.first_name # Petr
        /\ PhoneRowsOf(db, c1.id) # {}
        /\ PhoneRowsOf(db, c2.id) # {}
        /\ LET r == change_client(Session, c1.id, Some(Petr), None, None,
                                  Some(<<>>))
           IN  /\ r.err = "none"
               /\ RowOf(r.s.comm, c1.id).first_name = Petr
               /\ PhoneRowsOf(r.s.comm, c1.id) = {}

\* C9, as claimed: whatever the store and the criteria, the records
\* find_client returns are in strictly ascending order of client id, so no
\* id occurs twice.
C9_OneRecordPerClient ==
    \A fn \in CritFirstNames, ln \in CritLastNames, em \in CritEmails,
       ph \in CritPhones :
        LET ret == find_client(Session, fn, ln, em, ph).ret
        IN  \A i \in 1..Len(ret), j \in 1..Len(ret) :
                i < j => ret[i].id < ret[j].id

\* C10, as claimed: create_db on a store whose tables exist leaves every
\* row of client and of phone as it was.
C10_CreateDbKeepsRows ==
    [][(CreateDb /\ tx # "aborted" /\ db.hasClient /\ db.hasPhone)
          => (db'.client = db.client /\ db'.phone = db.phone)]_vars

====
